---- MODULE Spec2Model ----
(***************************************************************************)
(* QuantPilot: the analyst / reviewer / tools workflow of                  *)
(* backend/agents/stock_agent.py driven by analyze_stock of                *)
(* backend/app/main.py, for one session (thread_id).                       *)
(*                                                                         *)
(* Texts are sequences of tokens.  A token is an indivisible piece of      *)
(* text: a brace, a JSON member such as "action:tool" (the member          *)
(* "action":"tool" with its separator), a keyword of the reviewer, a word  *)
(* of prose.  Substring tests of the code (x in s, find, rfind,            *)
(* startswith) are computed on these sequences.                            *)
(***************************************************************************)
EXTENDS Integers, Sequences, FiniteSets, TLC

(***************************************************************************)
(* Bounds of the exploration.                                              *)
(***************************************************************************)
\* runs (POST /analyze calls) explored on the session
MaxRuns == 2
\* replies of the collaborators (models, tools) other than their default
\* reply, per session
MaxDeviations == 2
\* the analyst and the tools give non-default replies in the first
\* MaxFreeSteps super-steps of a run only (the reviewer at any step)
MaxFreeSteps == 3
\* calls of get_thread_history explored between two checkpoint writes
MaxReads == 2

(***************************************************************************)
(* Program constants.                                                      *)
(***************************************************************************)
\* recursion_limit of graph.invoke: the call passes none in its config, so
\* the graph library's default of 25 super-steps applies
RecursionLimit == 25
\* str(result)[:2000]
ResultChars == 2000

\* END of langgraph.graph
END == "__end__"
\* the value of a channel that was never written
Absent == "<absent>"

(***************************************************************************)
(* Text helpers.                                                           *)
(***************************************************************************)
\* kw in s
Contains(s, kw) ==
    \E i \in 1..(Len(s) - Len(kw) + 1) : SubSeq(s, i, i + Len(kw) - 1) = kw

\* s.startswith(kw)
StartsWith(s, kw) == Len(s) >= Len(kw) /\ SubSeq(s, 1, Len(kw)) = kw

\* s.find(tok), 1-based; 0 when absent (python: -1)
Find(s, tok) ==
    IF \E i \in 1..Len(s) : s[i] = tok
    THEN CHOOSE i \in 1..Len(s) : s[i] = tok /\ \A j \in 1..(i - 1) : s[j] # tok
    ELSE 0

\* s.rfind(tok), 1-based; 0 when absent (python: -1)
RFind(s, tok) ==
    IF \E i \in 1..Len(s) : s[i] = tok
    THEN CHOOSE i \in 1..Len(s) : s[i] = tok /\ \A j \in (i + 1)..Len(s) : s[j] # tok
    ELSE 0

\* python slice s[a:b+1] for the indices find/rfind returned (0 = python -1)
Slice(s, a, b) ==
    IF a = 0
    THEN \* s[-1:b+1]: the last character when b is the last index, else empty
         IF b = Len(s) /\ Len(s) > 0 THEN SubSeq(s, Len(s), Len(s)) ELSE <<>>
    ELSE \* s[a:b+1]; b = 0 gives s[a:0], empty
         IF b >= a THEN SubSeq(s, a, b) ELSE <<>>

\* s.strip(): leading and trailing whitespace tokens removed
RECURSIVE LStrip(_)
LStrip(s) == IF s # <<>> /\ Head(s) = " " THEN LStrip(Tail(s)) ELSE s

RECURSIVE RStrip(_)
RStrip(s) ==
    IF s # <<>> /\ s[Len(s)] = " " THEN RStrip(SubSeq(s, 1, Len(s) - 1)) ELSE s

Strip(s) == RStrip(LStrip(s))

\* s.upper(), token by token; the reviewer's keywords are upper case already
UpperTok(t) ==
    CASE t = "final" -> "FINAL"
      [] t = "valid_tool" -> "VALID_TOOL"
      [] OTHER -> t

Upper(s) == [i \in 1..Len(s) |-> UpperTok(s[i])]

(***************************************************************************)
(* json.loads on token texts.  An object is "{" members "}"; a member is   *)
(* a scalar member token or the key "args:" followed by an object.         *)
(***************************************************************************)
\* the tool registry: the keys of tool_map (two of the fourteen, one that
\* reads a symbol and the one that takes no argument)
tool_map == {"get_stock_price", "top_gainers"}

\* tool names a model may write that tool_map does not hold
UnknownNames == {"get_crypto_price"}

ToolNames == tool_map \cup UnknownNames

\* the scalar members a text may hold: the token, its key and its value
Members ==
    { [tok |-> "tool:get_stock_price", key |-> "tool", value |-> "get_stock_price"],
      [tok |-> "tool:top_gainers", key |-> "tool", value |-> "top_gainers"],
      [tok |-> "tool:get_crypto_price", key |-> "tool", value |-> "get_crypto_price"],
      [tok |-> "action:tool", key |-> "action", value |-> "tool"],
      [tok |-> "action:none", key |-> "action", value |-> "none"],
      [tok |-> "symbol:AAPL", key |-> "symbol", value |-> "AAPL"] }

ScalarMembers == {m.tok : m \in Members}

MemberOf(t) == CHOOSE m \in Members : m.tok = t

\* position after the object whose members start at i, 0 when the text is
\* not a well-formed object there
RECURSIVE ParseMembers(_, _)
ParseMembers(s, i) ==
    IF i > Len(s) THEN 0
    ELSE IF s[i] = "}" THEN i + 1
    ELSE IF s[i] \in ScalarMembers THEN ParseMembers(s, i + 1)
    ELSE IF s[i] = "args:" /\ i + 1 <= Len(s) /\ s[i + 1] = "{"
         THEN LET j == ParseMembers(s, i + 2)
              IN  IF j = 0 THEN 0 ELSE ParseMembers(s, j)
    ELSE 0

\* json.loads(s) returns (an object) instead of raising
Decodes(s) == Len(s) >= 2 /\ s[1] = "{" /\ ParseMembers(s, 2) = Len(s) + 1

\* nesting depth of position i of s
Depth(s, i) ==
    Cardinality({j \in 1..(i - 1) : s[j] = "{"})
      - Cardinality({j \in 1..(i - 1) : s[j] = "}"})

\* positions of the members of the decoded object itself (not of its args)
TopIdx(s, key) ==
    {k \in 1..Len(s) :
       Depth(s, k) = 1 /\ s[k] \in ScalarMembers /\ MemberOf(s[k]).key = key}

\* key in parsed
HasKey(s, key) == TopIdx(s, key) # {}

\* parsed[key] where the key is present; a repeated key keeps its last value
GetKey(s, key) ==
    MemberOf(s[CHOOSE k \in TopIdx(s, key) : \A l \in TopIdx(s, key) : l <= k]).value

(***************************************************************************)
(* Messages and the replies of the collaborators.                          *)
(***************************************************************************)
HumanMessage(c) == [role |-> "human", content |-> c]
AIMessage(c) == [role |-> "ai", content |-> c]

\* the body of a tool call as the analyst's prompt asks for it
CallBody(toolTok) == <<"{", "action:tool", toolTok, "args:", "{", "symbol:AAPL", "}", "}">>

TxtPlain == <<"Apple trades on NASDAQ.">>
TxtFinal == <<"Apple closed higher.", "DASHBOARD:AAPL">>
\* the model ends its tool call with a newline
TxtCall == CallBody("tool:get_stock_price") \o <<" ">>
TxtCallUnknown == CallBody("tool:get_crypto_price")
TxtCallWrapped == <<"Fetching the quote:">> \o CallBody("tool:get_stock_price")
TxtNoToolKey == <<"{", "action:tool", "args:", "{", "symbol:AAPL", "}", "}">>
TxtNoMarker == <<"{", "tool:top_gainers", "}">>
TxtTruncated == <<"{", "action:tool", "tool:get_stock_price", "args:", "{", "symbol:AAPL", "}">>

\* what the reasoning model may answer (response.content of chain.invoke)
AnalystTexts ==
    { TxtPlain, TxtFinal, TxtCall, TxtCallUnknown, TxtCallWrapped,
      TxtNoToolKey, TxtNoMarker, TxtTruncated }

\* a model call returns a text or raises
ModelOk(c) == [ok |-> TRUE, text |-> c]
ModelRaises(c) == [ok |-> FALSE, text |-> c]

AnalystReplies ==
    {ModelOk(c) : c \in AnalystTexts} \cup {ModelRaises(<<"groq: rate limit">>)}

\* the word INVALID_TOOL is the text IN followed by the text VALID_TOOL
RevValid == <<"VALID_TOOL">>
RevInvalid == <<"IN", "VALID_TOOL", "wrong symbol">>
RevFeedback == <<"FEEDBACK", "add the dashboard line">>
RevFinal == <<"final">>
RevContinue == <<"CONTINUE">>
RevOther == <<"Looks reasonable.">>

ReviewerTexts ==
    {RevValid, RevInvalid, RevFeedback, RevFinal, RevContinue, RevOther}

ReviewerReplies ==
    {ModelOk(c) : c \in ReviewerTexts} \cup {ModelRaises(<<"gemini: quota exceeded">>)}

\* str(result) of a tool in blocks of 1000 characters, or str(e): a short
\* one, and one that quotes the body of the response it could not read
ToolReplies ==
    { ModelOk(<<"blk1">>), ModelOk(<<"blk1", "blk2", "blk3">>),
      ModelRaises(<<"KeyError: 'c'">>),
      ModelRaises(<<"blk1", "blk2", "blk3">>) }

DefaultToolReply == ModelOk(<<"blk1">>)

\* req.query
Queries == {<<"What is the price of AAPL?">>}

(***************************************************************************)
(* The nodes.  A node returns a partial update of the state: the messages  *)
(* to add and the other keys of the dict it returns.                       *)
(***************************************************************************)
\* the tokens that hold the text sub
TokensWith(sub) ==
    CASE sub = "{" -> {"{"}
      [] sub = "action" -> {"action:tool", "action:none", "No action needed"}
      [] sub = "DASHBOARD:" -> {"DASHBOARD:AAPL"}

\* sub in content
InText(content, sub) == \E i \in 1..Len(content) : content[i] \in TokensWith(sub)

\* the dict a node returns: the messages to add, the keys it holds besides
\* (writes) and their values
Update(msgs, writes, ns, fb) ==
    [messages |-> msgs, writes |-> writes, next_step |-> ns, feedback |-> fb]

\* a dict with "messages" only, with "next_step", with "feedback"
OnlyMessages(msgs) == Update(msgs, {}, "", <<>>)
WithNext(msgs, ns) == Update(msgs, {"next_step"}, ns, <<>>)
WithFeedback(msgs, fb) == Update(msgs, {"feedback"}, "", fb)

\* mutant of add_messages: the new messages are put in front
add_messages_prepend(left, right) == right \o left

\* the add_messages reducer; every message here carries a fresh id
add_messages(left, right) == left \o right

\* state.get(key, default)
StateGet(v, default) == IF v = Absent THEN default ELSE v

\* content[start_idx:end_idx+1] of tool_node
ActionText(content) == Slice(content, Find(content, "{"), RFind(content, "}"))

\* str(result)[:2000]; a token of a result text stands for a block of 1000
\* characters
Truncate(text) ==
    SubSeq(text, 1, IF Len(text) < ResultChars \div 1000
                    THEN Len(text) ELSE ResultChars \div 1000)

analyst_node(state, reply) ==
    IF reply.ok
    THEN WithFeedback(<<AIMessage(reply.text)>>, <<>>)
    ELSE OnlyMessages(<<AIMessage(<<"Analyst encountered error:">> \o reply.text)>>)

\* mutant of reviewer_node: CONTINUE is tested before FINAL and the sentinel
reviewer_node_continue_first(state, evalText) ==
    LET last_message == state.messages[Len(state.messages)]
        eval_content == Upper(evalText)
    IN  IF Contains(eval_content, <<"VALID_TOOL">>)
        THEN WithNext(<<>>, "tools")
        ELSE IF \/ Contains(eval_content, <<"IN", "VALID_TOOL">>)
                \/ Contains(eval_content, <<"FEEDBACK">>)
                \/ Contains(eval_content, <<"RETRY">>)
        THEN Update(<<>>, {"next_step", "feedback"}, "analyst", evalText)
        ELSE IF Contains(eval_content, <<"CONTINUE">>)
        THEN WithNext(<<>>, "analyst")
        ELSE IF \/ Contains(eval_content, <<"FINAL">>)
                \/ InText(last_message.content, "DASHBOARD:")
        THEN WithNext(<<>>, END)
        ELSE IF /\ InText(last_message.content, "{")
                /\ InText(last_message.content, "action")
        THEN WithNext(<<>>, "tools")
        ELSE WithNext(<<>>, END)

\* mutant of reviewer_node: the last return is without next_step, so the
\* router reads the value an earlier step left in the channel
reviewer_node_no_default(state, evalText) ==
    LET last_message == state.messages[Len(state.messages)]
        eval_content == Upper(evalText)
    IN  IF Contains(eval_content, <<"VALID_TOOL">>) THEN WithNext(<<>>, "tools")
        ELSE IF \/ Contains(eval_content, <<"IN", "VALID_TOOL">>)
                \/ Contains(eval_content, <<"FEEDBACK">>)
                \/ Contains(eval_content, <<"RETRY">>)
        THEN Update(<<>>, {"next_step", "feedback"}, "analyst", evalText)
        ELSE IF \/ Contains(eval_content, <<"FINAL">>)
                \/ InText(last_message.content, "DASHBOARD:")
        THEN WithNext(<<>>, END)
        ELSE IF Contains(eval_content, <<"CONTINUE">>) THEN WithNext(<<>>, "analyst")
        ELSE IF /\ InText(last_message.content, "{")
                /\ InText(last_message.content, "action")
        THEN WithNext(<<>>, "tools")
        ELSE OnlyMessages(<<>>)

\* reviewer_node after eval_chain.invoke returned evalText
reviewer_node(state, evalText) ==
    LET last_message == state.messages[Len(state.messages)]
        eval_content == Upper(evalText)
    IN  IF Contains(eval_content, <<"VALID_TOOL">>)
        THEN WithNext(<<>>, "tools")
        ELSE IF \/ Contains(eval_content, <<"IN", "VALID_TOOL">>)
                \/ Contains(eval_content, <<"FEEDBACK">>)
                \/ Contains(eval_content, <<"RETRY">>)
        THEN Update(<<>>, {"next_step", "feedback"}, "analyst", evalText)
        ELSE IF \/ Contains(eval_content, <<"FINAL">>)
                \/ InText(last_message.content, "DASHBOARD:")
        THEN WithNext(<<>>, END)
        ELSE IF Contains(eval_content, <<"CONTINUE">>)
        THEN WithNext(<<>>, "analyst")
        ELSE IF /\ InText(last_message.content, "{")
                /\ InText(last_message.content, "action")
        THEN WithNext(<<>>, "tools")
        ELSE WithNext(<<>>, END)

\* where the try block of tool_node ends for the text of the last message:
\* json.loads raises, parsed["tool"] raises, the name is not in tool_map, or
\* tool_map[tool_name].invoke(tool_args) is reached
ToolBranch(content) ==
    LET body == ActionText(Strip(content))
    IN  IF ~Decodes(body) THEN "decode_error"
        ELSE IF ~HasKey(body, "tool") THEN "key_error"
        ELSE IF GetKey(body, "tool") \notin tool_map THEN "unknown"
        ELSE "invoke"

\* mutant of tool_node: no membership test, tool_map.get(tool_name) is None
\* for an unknown name and its invoke raises into the except branch
tool_node_unchecked(state, reply) ==
    LET last_message == state.messages[Len(state.messages)]
        branch == ToolBranch(last_message.content)
        tool_name == GetKey(ActionText(Strip(last_message.content)), "tool")
    IN  CASE branch = "decode_error" ->
               WithNext(<<HumanMessage(<<"SYSTEM ERROR:", "JSON/Tool failure:",
                                         "JSONDecodeError">>)>>, "analyst")
          [] branch = "key_error" ->
               WithNext(<<HumanMessage(<<"SYSTEM ERROR:", "JSON/Tool failure:",
                                         "KeyError: 'tool'">>)>>, "analyst")
          [] branch = "unknown" ->
               WithNext(<<HumanMessage(<<"SYSTEM ERROR:", "JSON/Tool failure:",
                                         "'NoneType' object has no attribute 'invoke'">>)>>,
                        "analyst")
          [] branch = "invoke" /\ reply.ok ->
               WithNext(<<HumanMessage(<<"Observation from", tool_name, ":">>
                                         \o Truncate(reply.text))>>, "analyst")
          [] branch = "invoke" /\ ~reply.ok ->
               WithNext(<<HumanMessage(<<"SYSTEM ERROR:", "JSON/Tool failure:">>
                                         \o reply.text)>>, "analyst")

\* mutant of tool_node: the except branch returns next_step without a message
tool_node_silent(state, reply) ==
    LET last_message == state.messages[Len(state.messages)]
        branch == ToolBranch(last_message.content)
        tool_name == GetKey(ActionText(Strip(last_message.content)), "tool")
    IN  CASE branch \in {"decode_error", "key_error"} ->
               WithNext(<<>>, "analyst")
          [] branch = "unknown" ->
               OnlyMessages(<<HumanMessage(<<"SYSTEM ERROR:", "Tool", tool_name,
                                             "unknown.">>)>>)
          [] branch = "invoke" /\ reply.ok ->
               WithNext(<<HumanMessage(<<"Observation from", tool_name, ":">>
                                         \o Truncate(reply.text))>>, "analyst")
          [] branch = "invoke" /\ ~reply.ok ->
               WithNext(<<>>, "analyst")

\* tool_node; reply is what the tool callable does when it is invoked
tool_node(state, reply) ==
    LET last_message == state.messages[Len(state.messages)]
        branch == ToolBranch(last_message.content)
        tool_name == GetKey(ActionText(Strip(last_message.content)), "tool")
    IN  CASE branch = "decode_error" ->
               WithNext(<<HumanMessage(<<"SYSTEM ERROR:", "JSON/Tool failure:",
                                         "JSONDecodeError">>)>>, "analyst")
          [] branch = "key_error" ->
               WithNext(<<HumanMessage(<<"SYSTEM ERROR:", "JSON/Tool failure:",
                                         "KeyError: 'tool'">>)>>, "analyst")
          [] branch = "unknown" ->
               OnlyMessages(<<HumanMessage(<<"SYSTEM ERROR:", "Tool", tool_name,
                                             "unknown.">>)>>)
          [] branch = "invoke" /\ reply.ok ->
               WithNext(<<HumanMessage(<<"Observation from", tool_name, ":">>
                                         \o Truncate(reply.text))>>, "analyst")
          [] branch = "invoke" /\ ~reply.ok ->
               WithNext(<<HumanMessage(<<"SYSTEM ERROR:", "JSON/Tool failure:">>
                                         \o reply.text)>>, "analyst")

\* route_next
route_next(state) == StateGet(state.next_step, END)

\* the state after a node's update is applied and checkpointed
ApplyUpdate(state, u) ==
    [messages |-> add_messages(state.messages, u.messages),
     next_step |-> IF "next_step" \in u.writes THEN u.next_step ELSE state.next_step,
     feedback |-> IF "feedback" \in u.writes THEN u.feedback ELSE state.feedback]

(***************************************************************************)
(* main.py: the visible projection and the response.                       *)
(***************************************************************************)
\* is_tool_call of filter_messages
is_tool_call(msg) ==
    LET content == Strip(msg.content)
    IN  /\ StartsWith(content, <<"{">>)
        /\ content # <<>> /\ content[Len(content)] = "}"
        /\ Decodes(content)
        /\ HasKey(content, "action")
        /\ GetKey(content, "action") = "tool"

\* is_internal_human of filter_messages
is_internal_human(msg) ==
    LET content == Strip(msg.content)
    IN  /\ msg.role = "human"
        /\ \/ StartsWith(content, <<"Observation from">>)
           \/ StartsWith(content, <<"SYSTEM NOTICE">>)
           \/ StartsWith(content, <<"SYSTEM ERROR:">>)

RECURSIVE filter_messages(_)
filter_messages(msgs) ==
    IF msgs = <<>> THEN <<>>
    ELSE LET msg == Head(msgs)
             rest == filter_messages(Tail(msgs))
         IN  IF ~is_tool_call(msg) /\ ~is_internal_human(msg)
             THEN <<[role |-> IF msg.role = "human" THEN "user" ELSE "assistant",
                     content |-> msg.content]>> \o rest
             ELSE rest

FallbackResponse == <<"I've analyzed the data, but I'm having trouble providing a final answer.">>

\* mutant of FinalResponse: the loop runs over filtered, not reversed(filtered)
FinalResponse_first(msgs) ==
    LET filtered == filter_messages(msgs)
        idx == {i \in 1..Len(filtered) : filtered[i].role = "assistant"}
    IN  IF idx = {} THEN FallbackResponse
        ELSE filtered[CHOOSE i \in idx : \A j \in idx : i <= j].content

\* the loop over reversed(filtered) of analyze_stock
FinalResponse(msgs) ==
    LET filtered == filter_messages(msgs)
        idx == {i \in 1..Len(filtered) : filtered[i].role = "assistant"}
    IN  IF idx = {} THEN FallbackResponse
        ELSE filtered[CHOOSE i \in idx : \A j \in idx : j <= i].content

\* the except branch of analyze_stock
ErrorResponse(excText) == <<"I'm sorry, an error occurred:">> \o excText

(***************************************************************************)
(* The session: one thread_id, its checkpointed state, and the run         *)
(* (POST /analyze) in progress on it.                                      *)
(***************************************************************************)
VARIABLES
    thread,       \* the row of the threads table exists
    messages,     \* checkpointed channel "messages"
    next_step,    \* checkpointed channel "next_step"
    feedback,     \* checkpointed channel "feedback" (empty until written)
    pc,           \* "idle", or the node the run in progress executes next
    steps,        \* super-steps the run in progress has executed
    response,     \* "response" of the last return of analyze_stock
    outcome,      \* how the last call of analyze_stock came back
    runs,         \* runs started so far
    \* history of the run, read by the properties only
    analystRuns,  \* analyst_node executions of the current (or last) run
    toolCalls,    \* tool callables invoked in the current (or last) run
    trace,        \* the nodes the current (or last) run visited, END included
    last,         \* the last step: what it did and the reply it got
    origin,       \* who added each message: "user", "analyst" or "tools"
    executed,     \* positions of the messages tool_node invoked a tool for
    \* bounds of the exploration
    deviations,   \* non-default replies the collaborators gave so far
    varied,       \* the current (or last) run got a non-default reply
    \* calls that overlap on the session (read by the second specification)
    local,        \* the channels each overlapping graph.invoke holds in memory
    history,      \* "messages" of the last return of get_thread_history
    reads         \* returns of get_thread_history since the last checkpoint
                  \* was written

vars == <<thread, messages, next_step, feedback, pc, steps, response, outcome,
          runs, analystRuns, toolCalls, trace, last, origin, executed,
          deviations, varied, local, history, reads>>

\* the variables of the overlapping calls
opsVars == <<local, history, reads>>

\* the two calls of analyze_stock that may overlap on the session
Calls == {"a", "b"}

\* graph.invoke not entered yet: nothing loaded
NotStarted ==
    [pc |-> "idle", messages |-> <<>>, next_step |-> Absent, feedback |-> <<>>,
     loaded |-> <<>>]

State == [messages |-> messages, next_step |-> next_step, feedback |-> feedback]

Nodes == {"analyst", "reviewer", "tools"}

NoReply == ModelOk(<<>>)

Did(kind, reply) == [kind |-> kind, reply |-> reply]

Init ==
    /\ thread = FALSE
    /\ messages = <<>>
    /\ next_step = Absent
    /\ feedback = <<>>
    /\ pc = "idle"
    /\ steps = 0
    /\ response = <<>>
    /\ outcome = "none"
    /\ runs = 0
    /\ analystRuns = 0
    /\ toolCalls = 0
    /\ trace = <<>>
    /\ last = Did("init", NoReply)
    /\ origin = <<>>
    /\ executed = {}
    /\ deviations = 0
    /\ varied = FALSE
    /\ local = [c \in Calls |-> NotStarted]
    /\ history = <<>>
    /\ reads = 0

\* The default replies, explored without bound, are the replies the prompts
\* ask for.  The analyst answers an observation with its final text and
\* anything else with prose.  The reviewer marks a text with a brace
\* VALID_TOOL; it marks any other text CONTINUE for as long as the run got
\* default replies only (such a run loops analyst and reviewer) and FINAL
\* in a run that got another reply.  A tool returns a short result.
DefaultAnalystOn(msgs) ==
    IF StartsWith(msgs[Len(msgs)].content, <<"Observation from">>)
    THEN ModelOk(TxtFinal) ELSE ModelOk(TxtPlain)

DefaultReviewerOn(msgs, ending) ==
    IF InText(msgs[Len(msgs)].content, "{") THEN ModelOk(RevValid)
    ELSE IF ending THEN ModelOk(RevFinal)
    ELSE ModelOk(RevContinue)

DefaultAnalystReply == DefaultAnalystOn(messages)

DefaultReviewerReply == DefaultReviewerOn(messages, varied)

\* the collaborator answers reply; a reply other than dflt counts as a
\* deviation and is explored within the bounds only
Answers(reply, dflt, window) ==
    \/ reply = dflt /\ UNCHANGED <<deviations, varied>>
    \/ /\ reply # dflt
       /\ deviations < MaxDeviations
       /\ steps < window
       /\ deviations' = deviations + 1
       /\ varied' = TRUE

\* the channels after the node's update, checkpointed at the step boundary
Commit(u, who) ==
    LET new == ApplyUpdate(State, u)
    IN  /\ messages' = new.messages
        /\ next_step' = new.next_step
        /\ feedback' = new.feedback
        /\ origin' = origin \o [i \in 1..Len(u.messages) |-> who]

\* mutant of StartRun: graph.invoke starts from the input alone, the
\* checkpoint of the thread is not loaded
StartRun_fresh(query) ==
    /\ pc = "idle"
    /\ runs < MaxRuns
    /\ thread' = TRUE
    /\ messages' = <<HumanMessage(query)>>
    /\ origin' = <<"user">>
    /\ pc' = "analyst"
    /\ steps' = 0
    /\ analystRuns' = 0
    /\ toolCalls' = 0
    /\ trace' = <<>>
    /\ last' = Did("input", NoReply)
    /\ runs' = runs + 1
    /\ varied' = FALSE
    /\ outcome' = "pending"
    /\ UNCHANGED <<next_step, feedback, response, executed, deviations>>
    /\ UNCHANGED opsVars

\* analyze_stock up to the input of graph.invoke: the thread row is made or
\* touched, the user turn is added and the entry point is scheduled
StartRun(query) ==
    /\ pc = "idle"
    /\ runs < MaxRuns
    /\ thread' = TRUE
    /\ Commit(OnlyMessages(<<HumanMessage(query)>>), "user")
    /\ pc' = "analyst"
    /\ steps' = 0
    /\ analystRuns' = 0
    /\ toolCalls' = 0
    /\ trace' = <<>>
    /\ last' = Did("input", NoReply)
    /\ runs' = runs + 1
    /\ varied' = FALSE
    /\ outcome' = "pending"
    /\ UNCHANGED <<response, executed, deviations>>
    /\ UNCHANGED opsVars

\* super-step of analyst_node, then the edge analyst -> reviewer
AnalystStep(reply) ==
    /\ pc = "analyst"
    /\ steps < RecursionLimit
    /\ Answers(reply, DefaultAnalystReply, MaxFreeSteps)
    /\ Commit(analyst_node(State, reply), "analyst")
    /\ pc' = "reviewer"
    /\ steps' = steps + 1
    /\ analystRuns' = analystRuns + 1
    /\ trace' = Append(trace, "analyst")
    /\ last' = Did("analyst", reply)
    /\ UNCHANGED <<thread, response, outcome, runs, toolCalls, executed>>
    /\ UNCHANGED opsVars

\* super-step of reviewer_node, then the conditional edge route_next; at END
\* graph.invoke returns and analyze_stock builds the response
ReviewerStep(reply) ==
    /\ pc = "reviewer"
    /\ steps < RecursionLimit
    /\ reply.ok
    /\ Answers(reply, DefaultReviewerReply, RecursionLimit)
    /\ LET new == ApplyUpdate(State, reviewer_node(State, reply.text))
           target == route_next(new)
       IN  /\ Commit(reviewer_node(State, reply.text), "reviewer")
           /\ trace' = IF target = END THEN trace \o <<"reviewer", END>>
                       ELSE Append(trace, "reviewer")
           /\ pc' = IF target = END THEN "idle" ELSE target
           /\ response' = IF target = END THEN FinalResponse(new.messages)
                          ELSE response
           /\ outcome' = IF target = END THEN "response" ELSE outcome
           /\ last' = Did(IF target = END THEN "returned" ELSE "reviewed", reply)
    /\ steps' = steps + 1
    /\ UNCHANGED <<thread, runs, analystRuns, toolCalls, executed>>
    /\ UNCHANGED opsVars

\* mutant of ReviewerRaises: the checkpoint is written when graph.invoke
\* returns only, so a run that raises leaves the thread as it was before the
\* run
ReviewerRaises_rollback(reply) ==
    LET first == CHOOSE i \in 1..Len(origin) :
                   origin[i] = "user" /\ \A j \in (i + 1)..Len(origin) : origin[j] # "user"
    IN  /\ pc = "reviewer"
        /\ steps < RecursionLimit
        /\ ~reply.ok
        /\ Answers(reply, DefaultReviewerReply, RecursionLimit)
        /\ pc' = "idle"
        /\ response' = ErrorResponse(reply.text)
        /\ outcome' = "response"
        /\ last' = Did("reviewer_raised", reply)
        /\ messages' = SubSeq(messages, 1, first - 1)
        /\ origin' = SubSeq(origin, 1, first - 1)
        /\ UNCHANGED <<thread, next_step, feedback, steps, runs,
                       analystRuns, toolCalls, trace, executed>>
        /\ UNCHANGED opsVars

\* eval_chain.invoke raises: reviewer_node has no handler, graph.invoke
\* raises, the except branch of analyze_stock returns the error text
ReviewerRaises(reply) ==
    /\ pc = "reviewer"
    /\ steps < RecursionLimit
    /\ ~reply.ok
    /\ Answers(reply, DefaultReviewerReply, RecursionLimit)
    /\ pc' = "idle"
    /\ response' = ErrorResponse(reply.text)
    /\ outcome' = "response"
    /\ last' = Did("reviewer_raised", reply)
    /\ UNCHANGED <<thread, messages, next_step, feedback, steps, runs,
                   analystRuns, toolCalls, trace, origin, executed>>
    /\ UNCHANGED opsVars

\* super-step of tool_node, then the edge tools -> analyst
ToolStep(reply) ==
    /\ pc = "tools"
    /\ steps < RecursionLimit
    /\ LET branch == ToolBranch(messages[Len(messages)].content)
       IN  /\ IF branch = "invoke"
              THEN Answers(reply, DefaultToolReply, MaxFreeSteps)
              ELSE reply = DefaultToolReply /\ UNCHANGED <<deviations, varied>>
           /\ toolCalls' = IF branch = "invoke" THEN toolCalls + 1 ELSE toolCalls
           /\ executed' = IF branch = "invoke" THEN executed \cup {Len(messages)}
                          ELSE executed
           /\ last' = IF branch = "invoke" THEN Did("tool_invoked", reply)
                      ELSE Did(branch, NoReply)
    /\ Commit(tool_node(State, reply), "tools")
    /\ pc' = "analyst"
    /\ steps' = steps + 1
    /\ trace' = Append(trace, "tools")
    /\ UNCHANGED <<thread, response, outcome, runs, analystRuns>>
    /\ UNCHANGED opsVars

\* the run used up the super-steps of graph.invoke with a node still to run:
\* GraphRecursionError, which the except branch of analyze_stock answers
RecursionAbort ==
    /\ pc \in Nodes
    /\ steps = RecursionLimit
    /\ pc' = "idle"
    /\ response' = ErrorResponse(<<"Recursion limit of 25 reached">>)
    /\ outcome' = "response"
    /\ last' = Did("recursion_limit", NoReply)
    /\ UNCHANGED <<thread, messages, next_step, feedback, steps, runs,
                   analystRuns, toolCalls, trace, origin, executed,
                   deviations, varied>>
    /\ UNCHANGED opsVars

\* what the checkpointer may raise (psycopg, the pool of db.py)
SaverErrors == {<<"psycopg: connection lost">>}

\* the checkpointer raises while it loads or saves at a step boundary:
\* graph.invoke raises, the step's writes are not saved, and the except
\* branch of analyze_stock returns the error text as the response
CheckpointRaises(err) ==
    /\ pc \in Nodes
    /\ steps < RecursionLimit
    /\ steps < MaxFreeSteps
    /\ deviations < MaxDeviations
    /\ deviations' = deviations + 1
    /\ varied' = TRUE
    /\ pc' = "idle"
    /\ response' = ErrorResponse(err)
    /\ outcome' = "response"
    /\ last' = Did("checkpoint_raised", ModelRaises(err))
    /\ UNCHANGED <<thread, messages, next_step, feedback, steps, runs,
                   analystRuns, toolCalls, trace, origin, executed>>
    /\ UNCHANGED opsVars

\* the threads table cannot be read or written (main.py:122-141, a try with
\* finally and no except): the exception leaves analyze_stock before
\* graph.invoke is called, nothing is returned and nothing is checkpointed
ThreadRowRaises ==
    /\ pc = "idle"
    /\ outcome' = "raised"
    /\ UNCHANGED <<thread, messages, next_step, feedback, pc, steps, response,
                   runs, analystRuns, toolCalls, trace, last, origin, executed,
                   deviations, varied>>
    /\ UNCHANGED opsVars

Next ==
    \/ \E q \in Queries : StartRun(q)
    \/ \E r \in AnalystReplies : AnalystStep(r)
    \/ \E r \in ReviewerReplies : ReviewerStep(r)
    \/ \E r \in ReviewerReplies : ReviewerRaises(r)
    \/ \E r \in ToolReplies : ToolStep(r)
    \/ RecursionAbort
    \/ \E e \in SaverErrors : CheckpointRaises(e)
    \/ ThreadRowRaises

Spec == Init /\ [][Next]_vars

(***************************************************************************)
(* Calls that overlap on the session.  analyze_stock and                   *)
(* get_thread_history are sync endpoints, no lock is taken per thread_id:  *)
(* two calls of analyze_stock may be inside graph.invoke at once.  Each    *)
(* graph.invoke loads the latest checkpoint when it starts, keeps its      *)
(* channels in memory, and saves a checkpoint at every step boundary; the  *)
(* checkpoint saved last is the state of the thread.                       *)
(***************************************************************************)
\* the variables of the run of the first specification
runVars == <<pc, steps, response, outcome, runs, analystRuns, toolCalls, trace,
             last, origin, executed, varied>>

\* req.query of the two calls
QueryOf(c) ==
    IF c = "a" THEN <<"What is the price of AAPL?">> ELSE <<"And the price of MSFT?">>

\* the channels the call c holds in memory
ChannelsOf(c) ==
    [messages |-> local[c].messages, next_step |-> local[c].next_step,
     feedback |-> local[c].feedback]

\* the turns the call c added to the log it loaded
Produced(c) ==
    SubSeq(local[c].messages, Len(local[c].loaded) + 1, Len(local[c].messages))

\* a reply other than the default one is explored within the bound
Deviates(reply, dflt) ==
    \/ reply = dflt /\ UNCHANGED deviations
    \/ reply # dflt /\ deviations < MaxDeviations /\ deviations' = deviations + 1

\* the call c goes on to node with the channels new, which are saved as the
\* latest checkpoint of the thread
Proceed(c, new, node, loaded) ==
    /\ local' = [local EXCEPT ![c] =
                   [pc |-> node, messages |-> new.messages,
                    next_step |-> new.next_step, feedback |-> new.feedback,
                    loaded |-> loaded]]
    /\ messages' = new.messages
    /\ next_step' = new.next_step
    /\ feedback' = new.feedback
    /\ reads' = 0
    /\ UNCHANGED history

\* analyze_stock of the call c up to the input of graph.invoke: the thread
\* row, the latest checkpoint loaded, the user turn added
InvokeStart(c) ==
    /\ local[c].pc = "idle"
    /\ thread' = TRUE
    /\ Proceed(c, ApplyUpdate(State, OnlyMessages(<<HumanMessage(QueryOf(c))>>)),
               "analyst", messages)
    /\ UNCHANGED deviations
    /\ UNCHANGED runVars

\* super-step of analyst_node in the call c
InvokeAnalyst(c, reply) ==
    /\ local[c].pc = "analyst"
    /\ Deviates(reply, DefaultAnalystOn(local[c].messages))
    /\ Proceed(c, ApplyUpdate(ChannelsOf(c), analyst_node(ChannelsOf(c), reply)),
               "reviewer", local[c].loaded)
    /\ UNCHANGED thread
    /\ UNCHANGED runVars

\* super-step of reviewer_node in the call c and the conditional edge; a
\* raising review call ends graph.invoke with nothing saved
InvokeReviewer(c, reply) ==
    /\ local[c].pc = "reviewer"
    /\ Deviates(reply, DefaultReviewerOn(local[c].messages, TRUE))
    /\ IF reply.ok
       THEN LET new == ApplyUpdate(ChannelsOf(c),
                                   reviewer_node(ChannelsOf(c), reply.text))
                target == route_next(new)
            IN  Proceed(c, new, IF target = END THEN "done" ELSE target,
                        local[c].loaded)
       ELSE /\ local' = [local EXCEPT ![c].pc = "done"]
            /\ UNCHANGED <<messages, next_step, feedback, history, reads>>
    /\ UNCHANGED thread
    /\ UNCHANGED runVars

\* super-step of tool_node in the call c
InvokeTool(c, reply) ==
    /\ local[c].pc = "tools"
    /\ IF ToolBranch(local[c].messages[Len(local[c].messages)].content) = "invoke"
       THEN Deviates(reply, DefaultToolReply)
       ELSE reply = DefaultToolReply /\ UNCHANGED deviations
    /\ Proceed(c, ApplyUpdate(ChannelsOf(c), tool_node(ChannelsOf(c), reply)),
               "analyst", local[c].loaded)
    /\ UNCHANGED thread
    /\ UNCHANGED runVars

\* graph.get_state(config).values.get("messages", []), filtered
get_thread_history(state) == filter_messages(state.messages)

\* mutant of GetHistory: the call hands out only the turns that came after
\* the ones it handed out before
GetHistory_unseen ==
    /\ reads < MaxReads
    /\ history' = filter_messages(SubSeq(messages, Len(history) + 1, Len(messages)))
    /\ reads' = reads + 1
    /\ UNCHANGED <<thread, messages, next_step, feedback, deviations, local>>
    /\ UNCHANGED runVars

\* GET /threads/{thread_id}
GetHistory ==
    /\ reads < MaxReads
    /\ history' = get_thread_history(State)
    /\ reads' = reads + 1
    /\ UNCHANGED <<thread, messages, next_step, feedback, deviations, local>>
    /\ UNCHANGED runVars

\* DELETE /threads/{thread_id}: the checkpoint rows and the thread row of the
\* thread_id are deleted in one transaction; calls of analyze_stock that are
\* inside graph.invoke are not looked at
delete_thread ==
    /\ thread' = FALSE
    /\ messages' = <<>>
    /\ next_step' = Absent
    /\ feedback' = <<>>
    /\ reads' = 0
    /\ UNCHANGED <<history, local, deviations>>
    /\ UNCHANGED runVars

\* the replies explored for overlapping calls: prose, a final text, a tool
\* call; the verdicts that route to tools, Terminal and analyst; failures
OverlapAnalystReplies ==
    {ModelOk(TxtPlain), ModelOk(TxtFinal), ModelOk(TxtCall)}

OverlapReviewerReplies ==
    { ModelOk(RevValid), ModelOk(RevFinal), ModelOk(RevContinue),
      ModelRaises(<<"gemini: quota exceeded">>) }

NextOverlap ==
    \/ \E c \in Calls : InvokeStart(c)
    \/ \E c \in Calls, r \in OverlapAnalystReplies : InvokeAnalyst(c, r)
    \/ \E c \in Calls, r \in OverlapReviewerReplies : InvokeReviewer(c, r)
    \/ \E c \in Calls, r \in ToolReplies : InvokeTool(c, r)
    \/ GetHistory
    \/ delete_thread

SpecOverlap == Init /\ [][NextOverlap]_vars

(***************************************************************************)
(* Properties.                                                             *)
(***************************************************************************)
\* the last message of the log
LastMessage == messages[Len(messages)]

\* the log before a step is the start of the log after it
Extends(old, new) == Len(new) >= Len(old) /\ SubSeq(new, 1, Len(old)) = old

\* a node executed in this step
NodeStepTaken == steps' = steps + 1

\* C1: when a run reaches Terminal it has executed analyst_node at most
\* five times.
C1_CyclesAtTerminalAtMostFive ==
    last.kind = "returned" => analystRuns <= 5

\* C2: every run reaches Terminal and returns: a run that has returned did
\* so from Terminal, not from an exception of graph.invoke.
C2_EveryRunReachesTerminal ==
    (pc = "idle" /\ runs > 0) => (last.kind = "returned" /\ trace[Len(trace)] = END)

\* C3: after five cycles that route back to Reasoning the router forces
\* Terminal: the fifth review never routes on to another node.
C3_FifthCycleForcesTerminal ==
    (analystRuns >= 5 /\ trace # <<>> /\ trace[Len(trace)] = "reviewer")
        => pc \notin Nodes

\* C4: the Tool Execution step is never entered for an assistant text that is
\* not a well-formed action (no decodable object with a tool-name field).
C4_MalformedNeverEntersTools ==
    pc = "tools" => ToolBranch(LastMessage.content) \in {"unknown", "invoke"}

\* C5: for a parsed action whose tool name is not in tool_map, tool_node
\* invokes no tool, appends exactly one turn that holds the literal tool
\* name, and the run goes on to analyst_node (it is not ended by the step).
C5_UnknownToolObserved ==
    [][(pc = "tools" /\ ToolBranch(LastMessage.content) = "unknown" /\ NodeStepTaken)
         => /\ Len(messages') = Len(messages) + 1
            /\ Extends(messages, messages')
            /\ messages'[Len(messages')].role = "human"
            /\ Contains(messages'[Len(messages')].content,
                        <<GetKey(ActionText(Strip(LastMessage.content)), "tool")>>)
            /\ toolCalls' = toolCalls
            /\ pc' = "analyst"]_vars

C5_Witness == last.kind = "unknown" /\ pc = "analyst" /\ toolCalls = 0

\* C6: when the tool callable raises, tool_node catches it, appends exactly
\* one turn that describes the failure, the run goes on to analyst_node and
\* analyze_stock returns nothing at this step.
C6_ToolFailureAbsorbed ==
    [][(pc = "tools" /\ NodeStepTaken
          /\ last'.kind = "tool_invoked" /\ ~last'.reply.ok)
         => /\ Len(messages') = Len(messages) + 1
            /\ Extends(messages, messages')
            /\ messages'[Len(messages')].role = "human"
            /\ StartsWith(messages'[Len(messages')].content, <<"SYSTEM ERROR:">>)
            /\ Contains(messages'[Len(messages')].content, last'.reply.text)
            /\ pc' = "analyst"
            /\ response' = response]_vars

C6_Witness == last.kind = "tool_invoked" /\ ~last.reply.ok /\ pc = "analyst"

\* C7 as claimed: every step of a node (Reasoning, Review, ToolExecution)
\* leaves the old turns in place and appends exactly one turn.
C7_EveryStepAppendsOne ==
    [][NodeStepTaken
         => Extends(messages, messages') /\ Len(messages') = Len(messages) + 1]_vars

\* C7 as amended: analyst_node and tool_node append exactly one turn,
\* reviewer_node appends none, and no step removes, changes or reorders an
\* earlier turn.
C7_AppendOnly ==
    [][NodeStepTaken
         => /\ Extends(messages, messages')
            /\ Len(messages') = Len(messages) + (IF pc = "reviewer" THEN 0 ELSE 1)]_vars

C7_Witness ==
    /\ last.kind = "reviewed"
    /\ trace = <<"analyst", "reviewer">>
    /\ Len(messages) = 2

\* scenario A up to the second review: on an empty history the analyst wrote
\* a well-formed call of the registered price tool, the reviewer approved
\* it, the tool returned, and the analyst wrote a text with the sentinel
ScenarioAPending ==
    /\ runs = 1
    /\ pc = "reviewer"
    /\ trace = <<"analyst", "reviewer", "tools", "analyst">>
    /\ Len(messages) = 4
    /\ messages[1].role = "human"
    /\ messages[2] = AIMessage(TxtCall)
    /\ messages[3].role = "human"
    /\ StartsWith(messages[3].content, <<"Observation from", "get_stock_price">>)
    /\ messages[4].role = "ai"
    /\ InText(messages[4].content, "DASHBOARD:")

\* scenario A done: Terminal after the second review, the log is [user,
\* assistant tool call, observation, assistant final], the final text returned
ScenarioADone ==
    /\ pc = "idle"
    /\ trace = <<"analyst", "reviewer", "tools", "analyst", "reviewer", END>>
    /\ Len(messages) = 4
    /\ messages[2] = AIMessage(TxtCall)
    /\ StartsWith(messages[3].content, <<"Observation from", "get_stock_price">>)
    /\ InText(messages[4].content, "DASHBOARD:")
    /\ response = messages[4].content

\* C8 as claimed: in scenario A the second review always leads to Terminal
\* and the final text is returned.
C8_ScenarioAEndsAtTerminal ==
    [][(ScenarioAPending /\ NodeStepTaken) => ScenarioADone']_vars

\* the reviewer's text holds a keyword that routes before FINAL and the
\* sentinel are looked at (INVALID_TOOL holds VALID_TOOL)
RoutesBeforeFinal(evalText) ==
    \/ Contains(Upper(evalText), <<"VALID_TOOL">>)
    \/ Contains(Upper(evalText), <<"FEEDBACK">>)
    \/ Contains(Upper(evalText), <<"RETRY">>)

\* C8 as amended: in scenario A, when the second review returns a text with
\* none of VALID_TOOL, INVALID_TOOL, FEEDBACK, RETRY, the run ends at Terminal
\* with the log [user, assistant tool call, observation, assistant final] and
\* returns the final text.
C8_ScenarioA ==
    [][(ScenarioAPending /\ NodeStepTaken /\ ~RoutesBeforeFinal(last'.reply.text))
         => ScenarioADone']_vars

C8_Witness == ScenarioADone /\ runs = 1 /\ response = TxtFinal

\* the positions of the assistant turns of a visible projection f
AssistantTurns(f) == {i \in 1..Len(f) : f[i].role = "assistant"}

\* the greatest position of a non-empty set of positions
Latest(idx) == CHOOSE i \in idx : \A j \in idx : j <= i

C10_NoInternalTurnVisible ==
    pc = "idle"
        => LET visible == filter_messages(messages)
           IN  \A i \in 1..Len(messages) :
                 (origin[i] = "tools" \/ i \in executed)
                    => ~\E j \in 1..Len(visible) :
                          /\ visible[j].content = messages[i].content
                          /\ visible[j].role =
                               (IF messages[i].role = "human" THEN "user"
                                ELSE "assistant")

\* C11: when chain.invoke raised in analyst_node, one assistant turn with the
\* error text was appended, no further analyst_node or tool_node step is
\* executed: the review that follows ends the run at Terminal and the error
\* turn is the response.
C11_AnalystFailureEndsRun ==
    [][(pc = "reviewer" /\ last.kind = "analyst" /\ ~last.reply.ok /\ pc' # pc)
         => /\ LastMessage.role = "ai"
            /\ Contains(LastMessage.content, last.reply.text)
            /\ pc' = "idle"
            /\ last'.kind = "returned"
            /\ messages' = messages
            /\ response' = LastMessage.content]_vars

\* C12: when eval_chain.invoke raises in reviewer_node, the step absorbs the
\* failure: it appends one assistant turn, the run ends at Terminal, and the
\* response is the text of that turn, which does not hold the exception text.
C12_ReviewFailureAbsorbed ==
    [][(pc = "reviewer" /\ last'.kind = "reviewer_raised" /\ pc' # pc)
         => /\ Len(messages') = Len(messages) + 1
            /\ Extends(messages, messages')
            /\ messages'[Len(messages')].role = "ai"
            /\ pc' = "idle"
            /\ response' = messages'[Len(messages')].content
            /\ ~Contains(response', last'.reply.text)]_vars

\* C13: when the checkpointer raised during a run, the failure reaches the
\* caller of analyze_stock: the call does not come back with a response, and
\* the response is not made from the error text.
C13_CheckpointFailurePropagates ==
    [][(pc \in Nodes /\ last'.kind = "checkpoint_raised" /\ pc' # pc)
         => /\ outcome' = "raised"
            /\ response' = response]_vars

\* C14: two calls of analyze_stock that overlap on one thread_id are
\* serialized: once both are over, the log of the thread is the turns of one
\* call followed by the turns of the other.
C14_OverlappingRunsSerialized ==
    (\A c \in Calls : local[c].pc = "done")
        => \E c1 \in Calls : \E c2 \in Calls \ {c1} :
             messages = Produced(c1) \o Produced(c2)

C16_LogGrowsAcrossRuns ==
    [][/\ Extends(messages, messages')
       /\ Extends(origin, origin')
       /\ Len(origin') = Len(messages')
       /\ runs' # runs
            => /\ \E q \in Queries : messages' = Append(messages, HumanMessage(q))
               /\ origin' = Append(origin, "user")
       /\ runs' = runs
            => /\ Len(messages') <= Len(messages) + 1
               /\ (steps' = steps => messages' = messages)
               /\ \A i \in (Len(messages) + 1)..Len(messages') :
                    origin'[i] \in {"analyst", "tools"}]_vars

\* the second run is over: the log holds the turns of the first run, then the
\* second user turn, then the turns of the second run's steps
C16_Witness ==
    /\ pc = "idle"
    /\ runs = 2
    /\ \E i \in 3..Len(messages) :
         /\ origin[i] = "user"
         /\ messages[i].role = "human"
         /\ i < Len(messages)
         /\ \A j \in 1..Len(messages) : origin[j] = "user" => j \in {1, i}
         /\ \E j \in 2..(i - 1) : origin[j] = "tools"

\* C17: when the reviewer's text says INVALID_TOOL, the step that follows the
\* review is analyst_node, not tool_node, and feedback is the reviewer's
\* text.
C17_RejectedCallGoesToAnalyst ==
    [][(pc = "reviewer" /\ NodeStepTaken
          /\ Contains(Upper(last'.reply.text), <<"IN", "VALID_TOOL">>))
         => /\ pc' = "analyst"
            /\ feedback' = last'.reply.text]_vars

\* C18: a run ends at Terminal from a review only when the latest assistant
\* content holds the sentinel DASHBOARD: ; a verdict FINAL on a content
\* without it does not end the run.
C18_FinalNeedsSentinel ==
    [][(pc = "reviewer" /\ NodeStepTaken /\ last'.kind = "returned")
         => /\ LastMessage.role = "ai"
            /\ InText(LastMessage.content, "DASHBOARD:")]_vars

\* the reviewer's verdict is CONTINUE: its text holds CONTINUE and no other
\* keyword
SaysContinue(evalText) ==
    /\ Contains(Upper(evalText), <<"CONTINUE">>)
    /\ ~Contains(Upper(evalText), <<"VALID_TOOL">>)
    /\ ~Contains(Upper(evalText), <<"FEEDBACK">>)
    /\ ~Contains(Upper(evalText), <<"RETRY">>)
    /\ ~Contains(Upper(evalText), <<"FINAL">>)

\* C19: when the reviewer's verdict is CONTINUE the next step is
\* analyst_node, also when the latest assistant content holds the sentinel
\* DASHBOARD: .
C19_ContinueBeforeSentinel ==
    [][(pc = "reviewer" /\ NodeStepTaken /\ SaysContinue(last'.reply.text)
          /\ InText(LastMessage.content, "DASHBOARD:"))
         => pc' = "analyst"]_vars

\* C20: feedback is consumed at most once: after every step of analyst_node,
\* whether chain.invoke returned or raised, feedback is empty, so feedback is
\* non-empty only from a review that rejected to the analyst_node step that
\* follows it.
C20_FeedbackConsumedOnce ==
    [][(pc = "analyst" /\ NodeStepTaken) => feedback' = <<>>]_vars

\* C21: tool_node invokes a tool callable only when the text between the
\* first brace and the last brace of the latest assistant turn decodes to an
\* object that holds the action marker (action = tool) and a tool name; an
\* object with a registered tool name and no action marker invokes no tool.
C21_InvokeNeedsActionMarker ==
    [][(pc = "tools" /\ NodeStepTaken /\ toolCalls' = toolCalls + 1)
         => LET body == ActionText(Strip(LastMessage.content))
            IN  /\ LastMessage.role = "ai"
                /\ Decodes(body)
                /\ HasKey(body, "tool")
                /\ HasKey(body, "action")
                /\ GetKey(body, "action") = "tool"]_vars

\* the nodes a run visited follow the table: analyst first, reviewer after
\* every analyst, analyst after every tools, tools only right after reviewer
TraceFollowsTable ==
    /\ trace # <<>> => trace[1] = "analyst"
    /\ \A i \in 1..(Len(trace) - 1) :
         /\ trace[i] = "analyst" => trace[i + 1] = "reviewer"
         /\ trace[i] = "tools" => trace[i + 1] = "analyst"
         /\ trace[i] = "reviewer" => trace[i + 1] \in {"tools", "analyst", END}
         /\ trace[i + 1] = "tools" => trace[i] = "reviewer"
    /\ pc \in Nodes /\ trace # <<>>
         => pc = CASE trace[Len(trace)] = "analyst" -> "reviewer"
                   [] trace[Len(trace)] = "tools" -> "analyst"
                   [] OTHER -> pc

\* C22: within a run the steps follow the transition table, the router acts
\* on the next_step the review of that same cycle wrote (never on a value
\* left by an earlier step or run), and that value is tools, analyst or END.
C22_TransitionTable ==
    [][/\ TraceFollowsTable'
       /\ (pc = "idle" /\ pc' # pc) => pc' = "analyst"
       /\ (pc = "reviewer" /\ NodeStepTaken)
            => LET u == reviewer_node(State, last'.reply.text)
               IN  /\ "next_step" \in u.writes
                   /\ u.next_step \in {"tools", "analyst", END}
                   /\ next_step' = u.next_step
                   /\ pc' = (IF u.next_step = END THEN "idle" ELSE u.next_step)
       /\ pc' = "tools" => (pc = "reviewer" /\ next_step' = "tools")]_vars

\* the second run goes through tools and back to the reviewer; it started
\* with the END the first run left in next_step
C22_Witness ==
    /\ runs = 2
    /\ pc = "reviewer"
    /\ trace = <<"analyst", "reviewer", "tools", "analyst">>
    /\ next_step = "analyst"

\* the blocks of 1000 characters a text holds
Blocks(content) ==
    Cardinality({i \in 1..Len(content) : content[i] \in {"blk1", "blk2", "blk3"}})

\* C23: every turn tool_node appends is bounded: the result of a tool and the
\* error text of a failed tool are cut to 2000 characters.
C23_ToolTurnBounded ==
    [][(pc = "tools" /\ NodeStepTaken)
         => Blocks(messages'[Len(messages')].content) * 1000 <= ResultChars]_vars

\* the turns of the log that follow the last user turn
TurnsOfRun ==
    Cardinality({i \in 1..Len(origin) : \A j \in i..Len(origin) : origin[j] # "user"})

\* the steps of the run that append a turn and were completed
TurnSteps == Cardinality({i \in 1..Len(trace) : trace[i] \in {"analyst", "tools"}})

\* C24: the state is checkpointed at every step boundary.  When a run stops
\* abnormally (an exception leaves graph.invoke), the persisted state is the
\* state after the last completed step: it holds the run's user turn and one
\* turn for every completed analyst_node and tool_node step; the run that
\* follows continues from that log.
C24_CheckpointEveryStep ==
    [][/\ (pc \in Nodes /\ pc' = "idle" /\ last'.kind # "returned")
            => /\ <<messages, next_step, feedback>>' = <<messages, next_step, feedback>>
               /\ Cardinality({i \in 1..Len(origin') : origin'[i] = "user"}) = runs'
               /\ TurnsOfRun' = TurnSteps'
       /\ (pc = "idle" /\ pc' = "analyst")
            => /\ Extends(messages, messages')
               /\ Len(messages') = Len(messages) + 1
               /\ <<next_step, feedback>>' = <<next_step, feedback>>]_vars

\* the first run stopped in its review after a completed analyst step; the
\* second run started from the log that holds both turns of the first
C24_Witness ==
    /\ runs = 2
    /\ pc = "analyst"
    /\ StartsWith(response, <<"I'm sorry, an error occurred:">>)
    /\ origin = <<"user", "analyst", "user">>
    /\ messages[2].role = "ai"

\* no call of analyze_stock is inside graph.invoke
AllFinished == \A c \in Calls : local[c].pc \in {"idle", "done"}

\* C25: no orphaned checkpoint state.  When delete_thread has returned, no
\* checkpoint of the thread is left and its visible history is empty; and
\* however delete_thread interleaves with the runs on the thread, once all of
\* them have finished the thread has a checkpoint only if its row exists.
C25_NoOrphanedCheckpoints ==
    [][/\ (thread /\ ~thread')
            => /\ messages' = <<>>
               /\ next_step' = Absent
               /\ get_thread_history(State)' = <<>>
       /\ (AllFinished' /\ messages' # <<>>) => thread']_vars

====
